---- MODULE Spec2Model ----
(***************************************************************************)
(* A model of the CORS middleware of baa-middleware/cors (src/cors.go).    *)
(*                                                                         *)
(* A Go string is a sequence of one-character strings, so that             *)
(* strings.Split, strings.Trim and strings.ToLower are computed and not    *)
(* assumed.  A header map (http.Header) is a function from the header      *)
(* names to the list of values stored under the name; an absent header is  *)
(* the empty list.  The middleware is constructed once (Cors) and the      *)
(* handler it returns is then run on requests: as one step per request     *)
(* (Spec), or by several workers whose handler invocations interleave      *)
(* between the statements that touch the request context (SpecConc).       *)
(***************************************************************************)
EXTENDS Integers, Sequences, FiniteSets, TLC

VARIABLES
    phase,              \* "init" | "serving" | "panicked": where Cors(config) got to
    passed,             \* the Config the application passed to Cors (its own copy)
    config,             \* the Config value the returned closure captured
    forceOriginMatch,   \* the closure's captured forceOriginMatch
    ctx                 \* worker -> the baa.Context of the request it is handling

vars == <<phase, passed, config, forceOriginMatch, ctx>>

(***************************************************************************)
(* Header names (src/cors.go:23-38).                                       *)
(***************************************************************************)
AllowOriginKey == "Access-Control-Allow-Origin"
AllowCredentialsKey == "Access-Control-Allow-Credentials"
AllowHeadersKey == "Access-Control-Allow-Headers"
AllowMethodsKey == "Access-Control-Allow-Methods"
MaxAgeKey == "Access-Control-Max-Age"
OriginKey == "Origin"
RequestMethodKey == "Access-Control-Request-Method"
RequestHeadersKey == "Access-Control-Request-Headers"
ExposeHeadersKey == "Access-Control-Expose-Headers"
VaryKey == "Vary"
optionsMethod == <<"O", "P", "T", "I", "O", "N", "S">>

RequestKeys == {OriginKey, RequestMethodKey, RequestHeadersKey}
CorsKeys == {AllowOriginKey, AllowCredentialsKey, AllowHeadersKey,
             AllowMethodsKey, MaxAgeKey, ExposeHeadersKey}
ResponseKeys == CorsKeys \cup {VaryKey}

(***************************************************************************)
(* Strings.                                                                *)
(***************************************************************************)
UpperLetters == <<"A", "B", "C", "D", "E", "F", "G", "H", "I", "J", "K", "L", "M",
                  "N", "O", "P", "Q", "R", "S", "T", "U", "V", "W", "X", "Y", "Z">>
LowerLetters == <<"a", "b", "c", "d", "e", "f", "g", "h", "i", "j", "k", "l", "m",
                  "n", "o", "p", "q", "r", "s", "t", "u", "v", "w", "x", "y", "z">>

\* unicode.ToLower on one (ASCII) character
ToLowerChar(ch) ==
    IF \E i \in DOMAIN UpperLetters : UpperLetters[i] = ch
    THEN LowerLetters[CHOOSE i \in DOMAIN UpperLetters : UpperLetters[i] = ch]
    ELSE ch

\* strings.ToLower
ToLower(s) == [i \in DOMAIN s |-> ToLowerChar(s[i])]

\* the cutset of strings.Trim(header, " \t\r\n")
TrimCutset == {" ", "\t", "\r", "\n"}

RECURSIVE TrimLeft(_, _)
TrimLeft(s, cutset) ==
    IF s # <<>> /\ Head(s) \in cutset THEN TrimLeft(Tail(s), cutset) ELSE s

RECURSIVE TrimRight(_, _)
TrimRight(s, cutset) ==
    IF s # <<>> /\ s[Len(s)] \in cutset
    THEN TrimRight(SubSeq(s, 1, Len(s) - 1), cutset)
    ELSE s

\* strings.Trim: the leading and the trailing characters of the cutset removed
Trim(s, cutset) == TrimRight(TrimLeft(s, cutset), cutset)

\* strings.Index, 1-based, 0 when sep does not occur in s
Index(s, sep) ==
    LET at == {i \in 1..(Len(s) - Len(sep) + 1) : SubSeq(s, i, i + Len(sep) - 1) = sep}
    IN  IF at = {} THEN 0 ELSE CHOOSE i \in at : \A j \in at : i <= j

\* strings.Split for a non-empty separator: the pieces between the leftmost,
\* non-overlapping occurrences of sep; a string without sep is its only piece
RECURSIVE Split(_, _)
Split(s, sep) ==
    LET i == Index(s, sep)
    IN  IF i = 0
        THEN <<s>>
        ELSE <<SubSeq(s, 1, i - 1)>> \o Split(SubSeq(s, i + Len(sep), Len(s)), sep)

Digits == <<"0", "1", "2", "3", "4", "5", "6", "7", "8", "9">>

\* the decimal digits of a natural number
RECURSIVE Decimal(_)
Decimal(n) ==
    IF n < 10 THEN <<Digits[n + 1]>> ELSE Decimal(n \div 10) \o <<Digits[(n % 10) + 1]>>

\* time.Second, in time.Duration's unit (nanoseconds)
Second == 1000000000

\* fmt.Sprintf("%.f", d.Seconds()): the seconds rounded to the nearest integer,
\* a half to the even one, the sign kept (so a negative fraction prints "-0")
FormatSeconds(d) ==
    LET a == IF d < 0 THEN 0 - d ELSE d
        q == a \div Second
        r == a % Second
        n == IF r > Second \div 2 THEN q + 1
             ELSE IF r = Second \div 2 /\ q % 2 = 1 THEN q + 1
             ELSE q
    IN  (IF d < 0 THEN <<"-">> ELSE <<>>) \o Decimal(n)

\* fmt.Sprintf("%t", b)
FormatBool(b) == IF b THEN <<"t", "r", "u", "e">> ELSE <<"f", "a", "l", "s", "e">>

(***************************************************************************)
(* http.Header                                                             *)
(***************************************************************************)
\* Header.Get: the first value stored under the key, "" when there is none
HeaderGet(h, key) == IF h[key] = <<>> THEN <<>> ELSE h[key][1]

\* Header.Set: the key's values replaced by the one value
HeaderSet(h, key, value) == [h EXCEPT ![key] = <<value>>]

\* Header.Add: the value appended to the key's values
HeaderAdd(h, key, value) == [h EXCEPT ![key] = Append(@, value)]

(***************************************************************************)
(* Config (src/cors.go:43-79) and its preparation.                         *)
(***************************************************************************)
\* the separator of the configured lists
ListSeparator == <<",", " ">>

\* a Config as the application writes it: the exported fields set, the
\* unexported ones at their zero value (nil slices, empty strings)
NewConfig(validate, origins, headers, exposed, methods, maxAge, credentials) ==
    [ValidateHeaders |-> validate,
     Origins |-> origins,               origins |-> <<>>,
     RequestHeaders |-> headers,        requestHeaders |-> <<>>,
     ExposedHeaders |-> exposed,
     Methods |-> methods,               methods |-> <<>>,
     MaxAge |-> maxAge,                 maxAge |-> <<>>,
     Credentials |-> credentials,       credentials |-> <<>>]

\* Config.prepare: the lists split on ", ", the max age and the credentials
\* rendered, the request headers lower-cased
prepare(cfg) ==
    LET split == Split(cfg.RequestHeaders, ListSeparator)
    IN  [cfg EXCEPT !.origins = Split(cfg.Origins, ListSeparator),
                    !.methods = Split(cfg.Methods, ListSeparator),
                    !.requestHeaders = [i \in DOMAIN split |-> ToLower(split[i])],
                    !.maxAge = FormatSeconds(cfg.MaxAge),
                    !.credentials = FormatBool(cfg.Credentials)]

(***************************************************************************)
(* The matchers (src/cors.go:205-257).                                     *)
(***************************************************************************)
\* the same, comparing without regard to case
matchOriginFold(origin, cfg) ==
    \E i \in DOMAIN cfg.origins : ToLower(cfg.origins[i]) = ToLower(origin)

\* matchOrigin: some configured origin equals the request's
matchOrigin(origin, cfg) ==
    \E i \in DOMAIN cfg.origins : cfg.origins[i] = origin

\* the same, comparing without regard to case
validateRequestMethodFold(requestMethod, cfg) ==
    IF ~cfg.ValidateHeaders THEN TRUE
    ELSE /\ requestMethod # <<>>
         /\ \E i \in DOMAIN cfg.methods : ToLower(cfg.methods[i]) = ToLower(requestMethod)

\* validateRequestMethod: TRUE when not validating, otherwise whether the
\* (non-empty) method equals a configured one
validateRequestMethod(requestMethod, cfg) ==
    IF ~cfg.ValidateHeaders THEN TRUE
    ELSE /\ requestMethod # <<>>
         /\ \E i \in DOMAIN cfg.methods : cfg.methods[i] = requestMethod

\* the loop of validateRequestHeaders over the split header list: FALSE at the
\* first token that, trimmed and lower-cased, is no configured request header
RECURSIVE validateEach(_, _)
validateEach(headers, cfg) ==
    IF headers = <<>> THEN TRUE
    ELSE LET header == ToLower(Trim(Head(headers), TrimCutset))
             match == \E i \in DOMAIN cfg.requestHeaders : cfg.requestHeaders[i] = header
         IN  IF ~match THEN FALSE ELSE validateEach(Tail(headers), cfg)

\* the same, with an empty header list accepted without a look at its token
validateRequestHeadersSkipEmpty(requestHeaders, cfg) ==
    IF ~cfg.ValidateHeaders THEN TRUE
    ELSE IF requestHeaders = <<>> THEN TRUE
    ELSE validateEach(Split(requestHeaders, <<",">>), cfg)

\* validateRequestHeaders: TRUE when not validating, otherwise whether every
\* token of the list split on "," is a configured request header
validateRequestHeaders(requestHeaders, cfg) ==
    IF ~cfg.ValidateHeaders THEN TRUE
    ELSE validateEach(Split(requestHeaders, <<",">>), cfg)

(***************************************************************************)
(* The request context (baa.Context): the request, the response headers,   *)
(* whether the chain went on (Next) or was stopped (Break), the handler's  *)
(* local variables and the place it has reached.  path records the places  *)
(* it went through.                                                        *)
(***************************************************************************)
EmptyRequestHeader == [k \in RequestKeys |-> <<>>]
EmptyResponseHeader == [k \in ResponseKeys |-> <<>>]

NewRequest(method, origin, requestMethod, requestHeaders) ==
    [Method |-> method,
     Header |-> [k \in RequestKeys |->
                    IF k = OriginKey THEN origin
                    ELSE IF k = RequestMethodKey THEN requestMethod
                    ELSE requestHeaders]]

NewContext(r) ==
    [pc |-> "start", req |-> r, resp |-> EmptyResponseHeader, outcome |-> "none",
     currentOrigin |-> <<>>, valid |-> FALSE, preflight |-> FALSE, path |-> <<>>]

\* a worker with no request
Idle ==
    [pc |-> "idle", req |-> [Method |-> <<>>, Header |-> EmptyRequestHeader],
     resp |-> EmptyResponseHeader, outcome |-> "none",
     currentOrigin |-> <<>>, valid |-> FALSE, preflight |-> FALSE, path |-> <<>>]

\* c.Next() and c.Break() end the handler: the chain goes on, or is stopped
Finished(c, how) == [c EXCEPT !.outcome = how, !.pc = "done"]

(***************************************************************************)
(* handlePreflight and handleRequest (src/cors.go:178-203): the response   *)
(* headers they leave and the value they return.                           *)
(***************************************************************************)
\* the same, with Access-Control-Max-Age set whatever the max age
handlePreflightAlwaysMaxAge(c, cfg, requestMethod) ==
    IF ~validateRequestMethod(requestMethod, cfg)
    THEN [resp |-> c.resp, ok |-> FALSE]
    ELSE IF validateRequestHeaders(HeaderGet(c.req.Header, RequestHeadersKey), cfg)
    THEN [resp |-> HeaderSet(HeaderSet(HeaderSet(c.resp, AllowMethodsKey, cfg.Methods),
                                       AllowHeadersKey, cfg.RequestHeaders),
                             MaxAgeKey, cfg.maxAge),
          ok |-> TRUE]
    ELSE [resp |-> c.resp, ok |-> FALSE]

handlePreflight(c, cfg, requestMethod) ==
    IF ~validateRequestMethod(requestMethod, cfg)
    THEN [resp |-> c.resp, ok |-> FALSE]
    ELSE IF validateRequestHeaders(HeaderGet(c.req.Header, RequestHeadersKey), cfg)
    THEN LET allowed == HeaderSet(HeaderSet(c.resp, AllowMethodsKey, cfg.Methods),
                                  AllowHeadersKey, cfg.RequestHeaders)
         IN  [resp |-> IF cfg.maxAge # <<"0">>
                       THEN HeaderSet(allowed, MaxAgeKey, cfg.maxAge)
                       ELSE allowed,
              ok |-> TRUE]
    ELSE [resp |-> c.resp, ok |-> FALSE]

handleRequest(c, cfg) ==
    [resp |-> IF cfg.ExposedHeaders # <<>>
              THEN HeaderSet(c.resp, ExposeHeadersKey, cfg.ExposedHeaders)
              ELSE c.resp,
     ok |-> TRUE]

(***************************************************************************)
(* The handler Cors returns (src/cors.go:116-175), statement by statement. *)
(***************************************************************************)
\* the same, without the return for a request that has no origin
readOriginNoFastPath(c) ==
    [c EXCEPT !.currentOrigin = HeaderGet(c.req.Header, OriginKey),
              !.resp = HeaderAdd(c.resp, VaryKey, OriginKey),
              !.path = Append(c.path, "readOrigin"),
              !.pc = "admit"]

\* read Origin, add Vary: Origin, and go on at once when there is no origin
readOrigin(c) ==
    LET currentOrigin == HeaderGet(c.req.Header, OriginKey)
        c1 == [c EXCEPT !.currentOrigin = currentOrigin,
                        !.resp = HeaderAdd(c.resp, VaryKey, OriginKey),
                        !.path = Append(c.path, "readOrigin")]
    IN  IF currentOrigin = <<>> THEN Finished(c1, "Next") ELSE [c1 EXCEPT !.pc = "admit"]

\* the origin is admitted by the wildcard or by matchOrigin, or the chain stops
admitOrigin(cfg, force, c) ==
    LET originMatch == IF ~force THEN matchOrigin(c.currentOrigin, cfg) ELSE FALSE
        c1 == [c EXCEPT !.path = Append(c.path, "admitOrigin")]
    IN  IF ~(force \/ originMatch) THEN Finished(c1, "Break") ELSE [c1 EXCEPT !.pc = "classify"]

\* the same, with every OPTIONS request taken for a preflight
classifyEveryOptions(cfg, c) ==
    LET requestMethod == HeaderGet(c.req.Header, RequestMethodKey)
        preflight == c.req.Method = optionsMethod
        answered == handlePreflight(c, cfg, requestMethod)
        c1 == [c EXCEPT !.path = Append(c.path, "classify"), !.preflight = preflight,
                        !.valid = FALSE]
    IN  IF preflight
        THEN Finished([c1 EXCEPT !.resp = answered.resp, !.valid = answered.ok], "Break")
        ELSE [c1 EXCEPT !.pc = "request"]

\* an OPTIONS request naming a method is a preflight: it is answered by
\* handlePreflight and the chain stops
classify(cfg, c) ==
    LET requestMethod == HeaderGet(c.req.Header, RequestMethodKey)
        preflight == c.req.Method = optionsMethod /\ requestMethod # <<>>
        answered == handlePreflight(c, cfg, requestMethod)
        c1 == [c EXCEPT !.path = Append(c.path, "classify"), !.preflight = preflight,
                        !.valid = FALSE]
    IN  IF preflight
        THEN Finished([c1 EXCEPT !.resp = answered.resp, !.valid = answered.ok], "Break")
        ELSE [c1 EXCEPT !.pc = "request"]

\* the same, going on to the next handler before the origin headers are set
actualRequestThenNext(cfg, c) ==
    LET handled == handleRequest(c, cfg)
    IN  Finished([c EXCEPT !.path = Append(c.path, "actualRequest"),
                           !.resp = handled.resp, !.valid = handled.ok], "Next")

\* any other request goes through handleRequest, and stops if that fails
actualRequest(cfg, c) ==
    LET handled == handleRequest(c, cfg)
        c1 == [c EXCEPT !.path = Append(c.path, "actualRequest"),
                        !.resp = handled.resp, !.valid = handled.ok]
    IN  IF ~c1.valid THEN Finished(c1, "Break") ELSE [c1 EXCEPT !.pc = "allow"]

\* Allow-Credentials and Allow-Origin are set and the chain goes on
allowOrigin(cfg, force, c) ==
    LET c1 == [c EXCEPT !.path = Append(c.path, "allowOrigin")]
        resp == IF cfg.Credentials
                THEN HeaderSet(HeaderSet(c.resp, AllowCredentialsKey, cfg.credentials),
                               AllowOriginKey, c.currentOrigin)
                ELSE IF force
                THEN HeaderSet(c.resp, AllowOriginKey, <<"*">>)
                ELSE HeaderSet(c.resp, AllowOriginKey, c.currentOrigin)
    IN  Finished([c1 EXCEPT !.resp = resp], "Next")

\* the handler from a place on, to its end
RECURSIVE Handler(_, _, _)
Handler(cfg, force, c) ==
    IF c.pc = "start" THEN Handler(cfg, force, readOrigin(c))
    ELSE IF c.pc = "admit" THEN Handler(cfg, force, admitOrigin(cfg, force, c))
    ELSE IF c.pc = "classify" THEN Handler(cfg, force, classify(cfg, c))
    ELSE IF c.pc = "request" THEN Handler(cfg, force, actualRequest(cfg, c))
    ELSE IF c.pc = "allow" THEN Handler(cfg, force, allowOrigin(cfg, force, c))
    ELSE c

(***************************************************************************)
(* The configurations and the requests the model is run on.                *)
(***************************************************************************)
Star == <<"*">>
OriginA == <<"a", ".", "i", "o">>
OriginAUpper == <<"A", ".", "i", "o">>
\* "a.io, b.io"
OriginsAB == <<"a", ".", "i", "o", ",", " ", "b", ".", "i", "o">>
\* "a.io,b.io": no ", " in it, so one origin
OriginsNoSpace == <<"a", ".", "i", "o", ",", "b", ".", "i", "o">>
\* "*, a.io": the star is one origin of two, not the wildcard policy
OriginsStarA == <<"*", ",", " ", "a", ".", "i", "o">>

MethodGet == <<"G", "E", "T">>
MethodGetLower == <<"g", "e", "t">>
MethodPut == <<"P", "U", "T">>
\* "GET, PUT"
MethodsGetPut == <<"G", "E", "T", ",", " ", "P", "U", "T">>

HeaderAcceptLower == <<"a", "c", "c", "e", "p", "t">>
HeaderXId == <<"X", "-", "I", "d">>
\* "Accept, ": the list ends in an empty name
HeadersAcceptEmpty == <<"A", "c", "c", "e", "p", "t", ",", " ">>
\* "Accept, X-Id"
HeadersAcceptXId == <<"A", "c", "c", "e", "p", "t", ",", " ", "X", "-", "I", "d">>
\* " ACCEPT ,x-id": other case, blanks around a token
ProbeAcceptXId == <<" ", "A", "C", "C", "E", "P", "T", " ", ",", "x", "-", "i", "d">>
\* "accept,": a trailing comma
ProbeTrailingComma == <<"a", "c", "c", "e", "p", "t", ",">>

OriginsValues == {<<>>, Star, OriginsAB, OriginsNoSpace, OriginsStarA}
MethodsValues == {MethodsGetPut}
RequestHeadersValues == {<<>>, HeadersAcceptEmpty, HeadersAcceptXId}
ExposedHeadersValues == {<<>>, HeaderXId}
\* no time, half a second, a nanosecond more, a second and a half, and a
\* nanosecond less than none
MaxAgeValues == {0, Second \div 2, (Second \div 2) + 1, Second + (Second \div 2), 0 - 1}

Configs ==
    {NewConfig(v, o, h, e, m, a, cr) :
        v \in BOOLEAN, o \in OriginsValues, h \in RequestHeadersValues,
        e \in ExposedHeadersValues, m \in MethodsValues, a \in MaxAgeValues,
        cr \in BOOLEAN}

\* a header of a request: absent, or present with one value
Absent == <<>>
Present(value) == <<value>>

Requests ==
    {NewRequest(m, o, rm, rh) :
        m \in {MethodGet, optionsMethod},
        o \in {Absent, Present(<<>>), Present(OriginA), Present(OriginAUpper),
               Present(Star)},
        rm \in {Absent, Present(<<>>), Present(MethodGet), Present(MethodGetLower),
                Present(MethodPut)},
        rh \in {Absent, Present(<<>>), Present(HeaderAcceptLower), Present(ProbeAcceptXId),
                Present(ProbeTrailingComma)}}

\* the workers of the concurrent specification, and what they are run on
NumWorkers == 2
Workers == 1..NumWorkers

ConcConfigs ==
    {NewConfig(v, o, HeadersAcceptXId, HeaderXId, MethodGet, Second, FALSE) :
        v \in BOOLEAN, o \in {<<>>, Star, OriginsAB}}

ConcRequests ==
    {NewRequest(m, o, rm, Present(HeaderAcceptLower)) :
        m \in {MethodGet, optionsMethod},
        o \in {Absent, Present(OriginA), Present(OriginAUpper)},
        rm \in {Present(MethodGet), Present(MethodPut)}}

(***************************************************************************)
(* The state machine.                                                      *)
(***************************************************************************)
ZeroConfig == NewConfig(FALSE, <<>>, <<>>, <<>>, <<>>, 0, FALSE)

Init ==
    /\ phase = "init"
    /\ passed = ZeroConfig
    /\ config = ZeroConfig
    /\ forceOriginMatch = FALSE
    /\ ctx = [w \in {1} |-> Idle]

InitConc ==
    /\ phase = "init"
    /\ passed = ZeroConfig
    /\ config = ZeroConfig
    /\ forceOriginMatch = FALSE
    /\ ctx = [w \in Workers |-> Idle]

\* the same, without the check of Origins
CorsNoPanic(cfg) ==
    /\ phase = "init"
    /\ passed' = cfg
    /\ forceOriginMatch' = (cfg.Origins = <<"*">>)
    /\ config' = prepare(cfg)
    /\ phase' = "serving"
    /\ UNCHANGED ctx

\* Cors(config) (src/cors.go:102-114): panics on an empty Origins; otherwise
\* prepares its copy of the configuration and returns the handler
Cors(cfg) ==
    /\ phase = "init"
    /\ passed' = cfg
    /\ \/ /\ cfg.Origins = <<>>
          /\ phase' = "panicked"
          /\ UNCHANGED <<config, forceOriginMatch, ctx>>
       \/ /\ cfg.Origins # <<>>
          /\ forceOriginMatch' = (cfg.Origins = <<"*">>)
          /\ config' = prepare(cfg)
          /\ phase' = "serving"
          /\ UNCHANGED ctx

\* the framework hands a request, with a fresh response, to the handler
Arrive(w, r) ==
    /\ phase = "serving"
    /\ ctx[w].pc = "idle"
    /\ ctx' = [ctx EXCEPT ![w] = NewContext(r)]
    /\ UNCHANGED <<phase, passed, config, forceOriginMatch>>

\* the handler runs on the request, from its first statement to its return
ServeHTTP(w) ==
    /\ phase = "serving"
    /\ ctx[w].pc = "start"
    /\ ctx' = [ctx EXCEPT ![w] = Handler(config, forceOriginMatch, ctx[w])]
    /\ UNCHANGED <<phase, passed, config, forceOriginMatch>>

\* the request is over and its context is given up
Release(w) ==
    /\ ctx[w].pc = "done"
    /\ ctx' = [ctx EXCEPT ![w] = Idle]
    /\ UNCHANGED <<phase, passed, config, forceOriginMatch>>

\* the same, with currentOrigin a variable all the invocations share
ReadOriginShared(w) ==
    /\ phase = "serving"
    /\ ctx[w].pc = "start"
    /\ ctx' = [v \in DOMAIN ctx |->
                 IF v = w THEN readOrigin(ctx[w])
                 ELSE [ctx[v] EXCEPT !.currentOrigin = readOrigin(ctx[w]).currentOrigin]]
    /\ UNCHANGED <<phase, passed, config, forceOriginMatch>>

\* the handler's statements, one worker at a time
ReadOrigin(w) ==
    /\ phase = "serving"
    /\ ctx[w].pc = "start"
    /\ ctx' = [ctx EXCEPT ![w] = readOrigin(ctx[w])]
    /\ UNCHANGED <<phase, passed, config, forceOriginMatch>>

AdmitOrigin(w) ==
    /\ ctx[w].pc = "admit"
    /\ ctx' = [ctx EXCEPT ![w] = admitOrigin(config, forceOriginMatch, ctx[w])]
    /\ UNCHANGED <<phase, passed, config, forceOriginMatch>>

Classify(w) ==
    /\ ctx[w].pc = "classify"
    /\ ctx' = [ctx EXCEPT ![w] = classify(config, ctx[w])]
    /\ UNCHANGED <<phase, passed, config, forceOriginMatch>>

ActualRequest(w) ==
    /\ ctx[w].pc = "request"
    /\ ctx' = [ctx EXCEPT ![w] = actualRequest(config, ctx[w])]
    /\ UNCHANGED <<phase, passed, config, forceOriginMatch>>

AllowOrigin(w) ==
    /\ ctx[w].pc = "allow"
    /\ ctx' = [ctx EXCEPT ![w] = allowOrigin(config, forceOriginMatch, ctx[w])]
    /\ UNCHANGED <<phase, passed, config, forceOriginMatch>>

Construct == \E cfg \in Configs : Cors(cfg)
Receive == \E r \in Requests : Arrive(1, r)

Next ==
    \/ Construct
    \/ Receive
    \/ ServeHTTP(1)
    \/ Release(1)

Spec == Init /\ [][Next]_vars

ConstructConc == \E cfg \in ConcConfigs : Cors(cfg)
ReceiveConc == \E w \in Workers : \E r \in ConcRequests : Arrive(w, r)
StepConc ==
    \E w \in Workers :
        \/ ReadOrigin(w)
        \/ AdmitOrigin(w)
        \/ Classify(w)
        \/ ActualRequest(w)
        \/ AllowOrigin(w)
ReleaseConc == \E w \in Workers : Release(w)

NextConc ==
    \/ ConstructConc
    \/ ReceiveConc
    \/ StepConc
    \/ ReleaseConc

SpecConc == InitConc /\ [][NextConc]_vars

(***************************************************************************)
(* What the properties speak of.  They are stated on the configuration as  *)
(* the application wrote it (passed) and on the request as it arrived, not *)
(* on the handler's local variables.                                       *)
(***************************************************************************)
Range(seq) == {seq[i] : i \in DOMAIN seq}

\* the handler has returned for the worker's request
Done(w) == ctx[w].pc = "done"

RequestOrigin(w) == HeaderGet(ctx[w].req.Header, OriginKey)
ProbedMethod(w) == HeaderGet(ctx[w].req.Header, RequestMethodKey)
ProbedHeaders(w) == HeaderGet(ctx[w].req.Header, RequestHeadersKey)

\* the configured lists, as the text of the configuration gives them
ConfiguredOrigins == Range(Split(passed.Origins, ListSeparator))
ConfiguredMethods == Range(Split(passed.Methods, ListSeparator))
ConfiguredHeaders == {ToLower(h) : h \in Range(Split(passed.RequestHeaders, ListSeparator))}

WildcardPolicy == passed.Origins = Star

\* the request carries an origin and the policy admits it
Admitted(w) ==
    /\ RequestOrigin(w) # <<>>
    /\ WildcardPolicy \/ RequestOrigin(w) \in ConfiguredOrigins

\* an OPTIONS request that names a method
IsPreflight(w) == ctx[w].req.Method = optionsMethod /\ ProbedMethod(w) # <<>>

\* the probe is acceptable to the configuration: validation is off, or the
\* probed method is not empty and is a configured method, and every token of
\* the probed headers is a configured request header
ProbeAcceptable(w) ==
    \/ ~passed.ValidateHeaders
    \/ /\ ProbedMethod(w) # <<>>
       /\ ProbedMethod(w) \in ConfiguredMethods
       /\ \A token \in Range(Split(ProbedHeaders(w), <<",">>)) :
              ToLower(Trim(token, TrimCutset)) \in ConfiguredHeaders

\* no response header but Vary: Origin
OnlyVary(w) ==
    /\ ctx[w].resp[VaryKey] = <<OriginKey>>
    /\ \A k \in CorsKeys : ctx[w].resp[k] = <<>>

\* the chain was stopped and nothing but Vary was set
Rejected(w) == ctx[w].outcome = "Break" /\ OnlyVary(w)

(***************************************************************************)
(* C1: a request whose Origin header is absent or empty always goes on to  *)
(* the next handler, whatever the configuration, the method and the        *)
(* Access-Control-Request-* headers, and Vary: Origin is the only response *)
(* header set.                                                             *)
(***************************************************************************)
C1_NoOriginContinues ==
    \A w \in DOMAIN ctx :
        (Done(w) /\ RequestOrigin(w) = <<>>) =>
            /\ ctx[w].outcome = "Next"
            /\ OnlyVary(w)

\* an OPTIONS request naming a method, without Origin, under a strict policy
\* of listed origins, has been handled
C1_Witness ==
    /\ Done(1)
    /\ ctx[1].req.Header[OriginKey] = Absent
    /\ ctx[1].req.Method = optionsMethod
    /\ ProbedMethod(1) = MethodGet
    /\ passed.ValidateHeaders /\ passed.Origins = OriginsAB /\ passed.Credentials

(***************************************************************************)
(* C2, as claimed: under a configuration whose origins do not include "*", *)
(* a request with a non-empty Origin is rejected (chain stopped, nothing   *)
(* but Vary set) if and only if its origin equals none of the configured   *)
(* origins.                                                                *)
(***************************************************************************)
C2_RejectedIffNoMatch ==
    \A w \in DOMAIN ctx :
        (Done(w) /\ RequestOrigin(w) # <<>> /\ Star \notin ConfiguredOrigins) =>
            (Rejected(w) <=> RequestOrigin(w) \notin ConfiguredOrigins)

(***************************************************************************)
(* C2, amended: under such a configuration the request is rejected (chain  *)
(* stopped, nothing but Vary set) if and only if its origin equals none of *)
(* the configured origins, or it is a preflight whose probe fails the      *)
(* strict validation.  Matching is byte for byte.                          *)
(***************************************************************************)
C2_RejectedIffNoMatchOrFailedPreflight ==
    \A w \in DOMAIN ctx :
        (Done(w) /\ RequestOrigin(w) # <<>> /\ Star \notin ConfiguredOrigins) =>
            (Rejected(w) <=>
                \/ RequestOrigin(w) \notin ConfiguredOrigins
                \/ IsPreflight(w) /\ ~ProbeAcceptable(w))

\* an origin that differs from a configured one in case only was rejected
C2_Witness ==
    /\ Done(1)
    /\ passed.Origins = OriginsAB
    /\ RequestOrigin(1) = OriginAUpper
    /\ Rejected(1)

(***************************************************************************)
(* C3, as claimed: with Credentials enabled, every admitted request that   *)
(* is no preflight gets Access-Control-Allow-Credentials: true and an      *)
(* Access-Control-Allow-Origin that is the request's origin and is never   *)
(* "*".                                                                    *)
(***************************************************************************)
C3_CredentialsEchoNeverStar ==
    \A w \in DOMAIN ctx :
        (Done(w) /\ passed.Credentials /\ Admitted(w) /\ ~IsPreflight(w)) =>
            /\ ctx[w].resp[AllowCredentialsKey] = << <<"t", "r", "u", "e">> >>
            /\ ctx[w].resp[AllowOriginKey] = <<RequestOrigin(w)>>
            /\ ctx[w].resp[AllowOriginKey] # <<Star>>

(***************************************************************************)
(* C4, as claimed: an admitted preflight that passes validation sets       *)
(* exactly Access-Control-Allow-Methods (the configured Methods),          *)
(* Access-Control-Allow-Headers (the configured RequestHeaders) and, if    *)
(* and only if the configured max age is not zero, Access-Control-Max-Age. *)
(***************************************************************************)
C4_PreflightHeadersMaxAgeNonZero ==
    \A w \in DOMAIN ctx :
        (Done(w) /\ Admitted(w) /\ IsPreflight(w) /\ ProbeAcceptable(w)) =>
            /\ ctx[w].resp[AllowMethodsKey] = <<passed.Methods>>
            /\ ctx[w].resp[AllowHeadersKey] = <<passed.RequestHeaders>>
            /\ (ctx[w].resp[MaxAgeKey] # <<>>) <=> (passed.MaxAge # 0)
            /\ ctx[w].resp[AllowOriginKey] = <<>>
            /\ ctx[w].resp[AllowCredentialsKey] = <<>>
            /\ ctx[w].resp[ExposeHeadersKey] = <<>>

(***************************************************************************)
(* C4, amended: the same, with Access-Control-Max-Age set if and only if   *)
(* the configured max age, rounded to whole seconds, is not printed "0":   *)
(* that is, if and only if it is negative or longer than half a second.    *)
(* When set it carries that number of seconds.                             *)
(***************************************************************************)
C4_PreflightHeadersMaxAgeRounded ==
    \A w \in DOMAIN ctx :
        (Done(w) /\ Admitted(w) /\ IsPreflight(w) /\ ProbeAcceptable(w)) =>
            /\ ctx[w].resp[AllowMethodsKey] = <<passed.Methods>>
            /\ ctx[w].resp[AllowHeadersKey] = <<passed.RequestHeaders>>
            /\ (ctx[w].resp[MaxAgeKey] # <<>>) <=>
                   (passed.MaxAge < 0 \/ passed.MaxAge > Second \div 2)
            /\ ctx[w].resp[MaxAgeKey] \in {<<>>, <<FormatSeconds(passed.MaxAge)>>}
            /\ ctx[w].resp[AllowOriginKey] = <<>>
            /\ ctx[w].resp[AllowCredentialsKey] = <<>>
            /\ ctx[w].resp[ExposeHeadersKey] = <<>>

\* a preflight passed the strict validation under a max age of half a second
\* and was answered without Access-Control-Max-Age
C4_Witness ==
    /\ Done(1) /\ Admitted(1) /\ IsPreflight(1) /\ ProbeAcceptable(1)
    /\ passed.ValidateHeaders
    /\ passed.MaxAge = Second \div 2
    /\ ctx[1].resp[AllowMethodsKey] # <<>>
    /\ ctx[1].resp[MaxAgeKey] = <<>>

(***************************************************************************)
(* C5, as claimed: the request goes on to the next handler only after the  *)
(* step that sets Access-Control-Allow-Origin; every other way out of the  *)
(* handler stops the chain.                                                *)
(***************************************************************************)
C5_NextOnlyAfterAllowOrigin ==
    \A w \in DOMAIN ctx :
        Done(w) =>
            /\ ctx[w].outcome \in {"Next", "Break"}
            /\ (ctx[w].outcome = "Next") <=> (ctx[w].resp[AllowOriginKey] # <<>>)

(***************************************************************************)
(* C5, amended: the request goes on to the next handler only after the     *)
(* step that sets Access-Control-Allow-Origin, or at once when it carries  *)
(* no Origin; every other way out of the handler stops the chain.          *)
(***************************************************************************)
C5_NextOnlyAfterAllowOriginOrNoOrigin ==
    \A w \in DOMAIN ctx :
        Done(w) =>
            /\ ctx[w].outcome \in {"Next", "Break"}
            /\ (ctx[w].outcome = "Next") <=>
                   \/ RequestOrigin(w) = <<>>
                   \/ /\ ctx[w].resp[AllowOriginKey] # <<>>
                      /\ ctx[w].path[Len(ctx[w].path)] = "allowOrigin"

\* a request without Origin went on with no Access-Control-Allow-Origin set
C5_Witness ==
    /\ Done(1)
    /\ RequestOrigin(1) = <<>>
    /\ ctx[1].outcome = "Next"
    /\ ctx[1].resp[AllowOriginKey] = <<>>
    /\ ctx[1].path = <<"readOrigin">>

\* one of the three headers of a preflight's answer is set
AnyAllowSet(w) ==
    \/ ctx[w].resp[AllowMethodsKey] # <<>>
    \/ ctx[w].resp[AllowHeadersKey] # <<>>
    \/ ctx[w].resp[MaxAgeKey] # <<>>

(***************************************************************************)
(* C6: an admitted preflight is answered with Access-Control-Allow-Methods *)
(* and -Allow-Headers if and only if ValidateHeaders is off, or the probed *)
(* method equals a configured method byte for byte and every               *)
(* comma-separated token of the probed headers, trimmed and lower-cased,   *)
(* is a lower-cased configured request header.  Passed or failed, the      *)
(* chain is stopped, and a failed preflight sets none of Allow-Methods,    *)
(* Allow-Headers, Max-Age.                                                 *)
(***************************************************************************)
C6_PreflightValidation ==
    \A w \in DOMAIN ctx :
        (Done(w) /\ Admitted(w) /\ IsPreflight(w)) =>
            /\ ctx[w].outcome = "Break"
            /\ ctx[w].resp[AllowOriginKey] = <<>>
            /\ (/\ ctx[w].resp[AllowMethodsKey] = <<passed.Methods>>
                /\ ctx[w].resp[AllowHeadersKey] = <<passed.RequestHeaders>>)
                   <=> ProbeAcceptable(w)
            /\ ~ProbeAcceptable(w) => ~AnyAllowSet(w)
            /\ (/\ passed.ValidateHeaders
                /\ passed.Methods = MethodsGetPut
                /\ ProbedMethod(w) = MethodGetLower) => ~AnyAllowSet(w)
            /\ ~passed.ValidateHeaders => ctx[w].resp[AllowMethodsKey] # <<>>

\* under strict validation the probe " ACCEPT ,x-id" for PUT was accepted by
\* the configuration "Accept, X-Id" / "GET, PUT"
C6_Witness ==
    /\ Done(1) /\ Admitted(1) /\ IsPreflight(1)
    /\ passed.ValidateHeaders
    /\ passed.RequestHeaders = HeadersAcceptXId
    /\ ProbedMethod(1) = MethodPut
    /\ ProbedHeaders(1) = ProbeAcceptXId
    /\ ctx[1].resp[AllowMethodsKey] = <<MethodsGetPut>>
    /\ ctx[1].outcome = "Break"

(***************************************************************************)
(* C7: an admitted request that is no preflight (an OPTIONS request        *)
(* without a probed method included) always goes on to the next handler;   *)
(* Access-Control-Expose-Headers is set if and only if ExposedHeaders is   *)
(* not empty, and Access-Control-Allow-Origin is "*" under the wildcard    *)
(* policy without credentials and the request's origin otherwise.          *)
(***************************************************************************)
C7_ActualRequestContinues ==
    \A w \in DOMAIN ctx :
        (Done(w) /\ Admitted(w) /\ ~IsPreflight(w)) =>
            /\ ctx[w].outcome = "Next"
            /\ ctx[w].resp[ExposeHeadersKey] =
                   (IF passed.ExposedHeaders # <<>> THEN <<passed.ExposedHeaders>> ELSE <<>>)
            /\ ctx[w].resp[AllowOriginKey] =
                   (IF WildcardPolicy /\ ~passed.Credentials
                    THEN <<Star>>
                    ELSE <<RequestOrigin(w)>>)

\* an OPTIONS request without Access-Control-Request-Method went on
C7_Witness ==
    /\ Done(1) /\ Admitted(1)
    /\ ctx[1].req.Method = optionsMethod
    /\ ctx[1].req.Header[RequestMethodKey] = Absent
    /\ ctx[1].outcome = "Next"
    /\ ctx[1].resp[ExposeHeadersKey] = <<HeaderXId>>

(***************************************************************************)
(* C8: Cors panics, at construction and before any request is handled, if  *)
(* and only if Origins is the empty string; with any other Origins it      *)
(* returns the handler, and handling a request never raises that error.    *)
(***************************************************************************)
C8_PanicsIffNoOrigins ==
    /\ [](/\ phase = "panicked" =>
                /\ passed.Origins = <<>>
                /\ config = ZeroConfig
                /\ \A w \in DOMAIN ctx : ctx[w] = Idle
          /\ phase = "serving" => passed.Origins # <<>>
          /\ \A w \in DOMAIN ctx : ctx[w].pc # "idle" => phase = "serving")
    /\ [][phase = "serving" => phase' = "serving"]_vars
    /\ [][phase = "panicked" => phase' = "panicked"]_vars

\* Cors was called with an empty Origins and panicked
C8_Witness ==
    /\ phase = "panicked"
    /\ passed.Origins = <<>>
    /\ passed.Methods = MethodsGetPut

(***************************************************************************)
(* C9: with any number of invocations of the handler interleaved, the      *)
(* prepared configuration is never written after construction, every       *)
(* request ends as it does when handled alone, and two requests with the   *)
(* same facts get the same outcome and the same response headers.          *)
(***************************************************************************)
C9_ConcurrentInvocationsIndependent ==
    /\ [][phase = "serving" =>
            (config' = config /\ forceOriginMatch' = forceOriginMatch)]_vars
    /\ [](phase = "serving" => config = prepare(passed))
    /\ [](\A w \in DOMAIN ctx :
            Done(w) => ctx[w] = Handler(config, forceOriginMatch, NewContext(ctx[w].req)))
    /\ [](\A v, w \in DOMAIN ctx :
            (Done(v) /\ Done(w) /\ ctx[v].req = ctx[w].req) =>
                (ctx[v].outcome = ctx[w].outcome /\ ctx[v].resp = ctx[w].resp))

\* one invocation has returned while another, for a request of another
\* origin, is between its statements
C9_Witness ==
    /\ Cardinality(DOMAIN ctx) >= 2
    /\ Done(1) /\ ctx[1].outcome = "Next" /\ RequestOrigin(1) = OriginA
    /\ ctx[2].pc = "admit" /\ RequestOrigin(2) = OriginAUpper
    /\ passed.Origins = OriginsAB

(***************************************************************************)
(* C10: under strict validation an admitted preflight without probed       *)
(* headers (absent or empty) is answered with the allow headers if and     *)
(* only if its method is allowed and the configured request headers hold   *)
(* an empty name: the empty value is one empty token.  In the same way a   *)
(* probe with an empty token (a trailing or a doubled comma) is answered   *)
(* with them only if the configured request headers hold an empty name.    *)
(***************************************************************************)
C10_EmptyProbeNeedsEmptyName ==
    \A w \in DOMAIN ctx :
        (Done(w) /\ passed.ValidateHeaders /\ Admitted(w) /\ IsPreflight(w)) =>
            /\ ProbedHeaders(w) = <<>> =>
                   (AnyAllowSet(w) <=>
                        (ProbedMethod(w) \in ConfiguredMethods /\ <<>> \in ConfiguredHeaders))
            /\ (<<>> \in Range(Split(ProbedHeaders(w), <<",">>)) /\ AnyAllowSet(w)) =>
                   <<>> \in ConfiguredHeaders

\* a strict preflight for an allowed method, without probed headers, was
\* answered without the allow headers
C10_Witness ==
    /\ Done(1) /\ passed.ValidateHeaders /\ Admitted(1) /\ IsPreflight(1)
    /\ ctx[1].req.Header[RequestHeadersKey] = Absent
    /\ ProbedMethod(1) = MethodGet
    /\ passed.RequestHeaders = HeadersAcceptXId
    /\ ~AnyAllowSet(1)
    /\ ctx[1].outcome = "Break"

====
